---- MODULE Spec2Model ----
(***************************************************************************)
(* A model of app.py, the Streamlit image storyteller.                      *)
(*                                                                          *)
(* The program is one script that Streamlit re-runs from top to bottom on   *)
(* every widget interaction of a browser session, each session in a thread  *)
(* of its own, plus the function generate_story_from_image that the script  *)
(* calls.  State that outlives a script run: the widget values of each      *)
(* session and the process-wide st.cache_resource entry of get_story_model. *)
(***************************************************************************)
EXTENDS Naturals, Sequences, FiniteSets, TLC

\* ------------------------------------------------------------------------
\* Bounds of the model
\* ------------------------------------------------------------------------
\* Longest response text the external model returns (in characters).
MaxTextLen == 3
\* Cap of the construction counter (a spy on genai.GenerativeModel).
MaxConstructions == 2
\* Cap of the number of model.generate_content calls in one invocation.
MaxCalls == 2

\* ------------------------------------------------------------------------
\* Values
\* ------------------------------------------------------------------------
\* Threads that run the script (browser sessions) or call the function.
Procs == {"p1", "p2"}

\* Python's None.
None == "None"

\* st.secrets.get("GEMINI_API_KEY", None): absent, empty or a key.
ApiKeys == {None, "", "key"}

\* `if api_key` / `not api_key`: None and "" are falsy.
Truthy(k) == k # None /\ k # ""

lang_tabs == <<"English", "Amharic", "Chinese">>

\* The options of the radio.
Supported == {lang_tabs[i] : i \in 1..Len(lang_tabs)}

lang_map == [l \in Supported |-> l]

\* Language arguments of a direct call: the supported ones and one other.
Languages == Supported \cup {"Klingon"}

\* Contents of an upload: bytes PIL identifies, and bytes it does not.
Images == {"valid", "undecodable"}

\* request_options={"timeout": 120}
Timeout == 120

\* The model name get_story_model constructs.
ModelName == "gemini-1.5-flash"

\* Characters of a response text: one whitespace, one other.
Whitespace == {" "}
Chars == Whitespace \cup {"a"}
Texts == UNION {[1..n -> Chars] : n \in 0..MaxTextLen}

\* ------------------------------------------------------------------------
\* str.strip()
\* ------------------------------------------------------------------------
RECURSIVE lstrip(_)
lstrip(s) == IF s # <<>> /\ Head(s) \in Whitespace THEN lstrip(Tail(s)) ELSE s

RECURSIVE rstrip(_)
rstrip(s) ==
  IF s # <<>> /\ s[Len(s)] \in Whitespace
  THEN rstrip(SubSeq(s, 1, Len(s) - 1))
  ELSE s

strip_NoTrim(s) == s

strip(s) == rstrip(lstrip(s))

\* ------------------------------------------------------------------------
\* State
\* ------------------------------------------------------------------------
VARIABLES
  api_key,            \* the credential read from st.secrets
  st_image_raises,    \* whether st.image raises on bytes PIL does not identify
  cache,              \* the st.cache_resource entry of get_story_model
  constructed,        \* how many times genai.GenerativeModel(...) ran
  pc,                 \* where each thread is
  uploaded_file,      \* st.file_uploader's value, per session
  selected_lang,      \* st.radio's value, per session
  generate_clicked,   \* st.button's value in the session's current run
  button,             \* the rendered button: absent, disabled or enabled
  warning,            \* whether st.warning is on the page
  story_placeholder,  \* what the st.empty() slot shows
  image_bytes,        \* argument of the current call
  language,           \* argument of the current call
  requests,           \* model.generate_content calls of the current call
  result              \* how the current call ended

vars == <<api_key, st_image_raises, cache, constructed, pc, uploaded_file,
          selected_lang,
          generate_clicked, button, warning, story_placeholder,
          image_bytes, language, requests, result>>

ui_vars == <<uploaded_file, selected_lang, generate_clicked, button, warning,
             story_placeholder>>

NoResult ==
  [kind |-> "none", text |-> <<>>, response |-> <<>>, at |-> "", cause |-> ""]

Returned(raw, txt) ==
  [kind |-> "returned", text |-> txt, response |-> raw, at |-> "", cause |-> ""]

Raised(where, why) ==
  [kind |-> "raised", text |-> <<>>, response |-> <<>>, at |-> where,
   cause |-> why]

Slot(k, h, t) == [kind |-> k, heading |-> h, text |-> t]

\* The prompt of generate_story_from_image: fixed text around {language}.
Prompt(lg) ==
  [role |-> "imaginative storyteller", paragraphs |-> <<3, 5>>,
   language |-> lg]

\* model.generate_content([prompt, img], request_options={"timeout": 120})
\* request_options is a dict, here the set of its items.
Request_NoTimeout(lg, img) ==
  [prompt |-> Prompt(lg), img |-> img, request_options |-> {}]

Request(lg, img) ==
  [prompt |-> Prompt(lg), img |-> img,
   request_options |-> {<<"timeout", Timeout>>}]

\* ------------------------------------------------------------------------
\* Init: the state after a session's first run of the script
\* (nothing uploaded, the radio on its first entry, the button not clicked).
\* ------------------------------------------------------------------------
Init ==
  /\ api_key \in ApiKeys
  /\ st_image_raises \in BOOLEAN
  /\ cache = None
  /\ constructed = 0
  /\ pc = [p \in Procs |-> "idle"]
  /\ uploaded_file = [p \in Procs |-> None]
  /\ selected_lang = [p \in Procs |-> lang_tabs[1]]
  /\ generate_clicked = [p \in Procs |-> FALSE]
  /\ button = [p \in Procs |-> "disabled"]
  /\ warning = [p \in Procs |-> ~Truthy(api_key)]
  /\ story_placeholder = [p \in Procs |-> Slot("placeholder", "", <<>>)]
  /\ image_bytes = [p \in Procs |-> None]
  /\ language = [p \in Procs |-> None]
  /\ requests = [p \in Procs |-> <<>>]
  /\ result = [p \in Procs |-> NoResult]

\* ------------------------------------------------------------------------
\* The script, lines 117-245, up to the call of generate_story_from_image
\* ------------------------------------------------------------------------
\* disabled=uploaded_file is None or not api_key
ButtonDisabled_ImageOnly(upl, key) == upl = None

ButtonDisabled(upl, key) == upl = None \/ ~Truthy(key)

\* if generate_clicked and uploaded_file is not None and api_key:
ShouldGenerate(clk, upl, key) == clk /\ upl # None /\ Truthy(key)

\* The else branch: the "Your story awaits" box goes into the slot.
ElseBranch_KeepsSlot(prev) == prev

ElseBranch(prev) == Slot("placeholder", "", <<>>)

\* story_placeholder.markdown(f"##### Your Story in {selected_lang}\n\n{story_text}")
StoryMarkdown(lng, story_text) == Slot("story", lng, story_text)

\* A call of generate_story_from_image(image_bytes=ib, language=lg) begins.
BeginCall(p, ib, lg) ==
  /\ image_bytes' = [image_bytes EXCEPT ![p] = ib]
  /\ language' = [language EXCEPT ![p] = lg]
  /\ requests' = [requests EXCEPT ![p] = <<>>]
  /\ result' = [result EXCEPT ![p] = NoResult]
  /\ pc' = [pc EXCEPT ![p] = "get_story_model"]

\* One run of the script in session p with the widget values upl, lng, clk.
\* st.image(uploaded_file) opens the upload with PIL; when it raises
\* (img_raises) the run ends at line 177, before the right column is rendered.
Script(p, upl, lng, clk, img_raises) ==
  /\ uploaded_file' = [uploaded_file EXCEPT ![p] = upl]
  /\ selected_lang' = [selected_lang EXCEPT ![p] = lng]
  /\ generate_clicked' = [generate_clicked EXCEPT ![p] = clk]
  /\ UNCHANGED <<api_key, st_image_raises, cache, constructed>>
  /\ IF img_raises
     THEN /\ button' = [button EXCEPT ![p] = "absent"]
          /\ warning' = [warning EXCEPT ![p] = FALSE]
          /\ story_placeholder' =
               [story_placeholder EXCEPT ![p] = Slot("absent", "", <<>>)]
          /\ image_bytes' = [image_bytes EXCEPT ![p] = None]
          /\ language' = [language EXCEPT ![p] = None]
          /\ requests' = [requests EXCEPT ![p] = <<>>]
          /\ result' =
               [result EXCEPT ![p] = Raised("st.image", "UnidentifiedImageError")]
          /\ pc' = [pc EXCEPT ![p] = "idle"]
     ELSE /\ button' =
               [button EXCEPT ![p] =
                  IF ButtonDisabled(upl, api_key) THEN "disabled" ELSE "enabled"]
          /\ warning' = [warning EXCEPT ![p] = ~Truthy(api_key)]
          /\ IF ShouldGenerate(clk, upl, api_key)
             THEN /\ story_placeholder' =
                       [story_placeholder EXCEPT ![p] = Slot("empty", "", <<>>)]
                  /\ BeginCall(p, upl, lang_map[lng])
             ELSE /\ story_placeholder' =
                       [story_placeholder EXCEPT
                          ![p] = ElseBranch(story_placeholder[p])]
                  /\ image_bytes' = [image_bytes EXCEPT ![p] = None]
                  /\ language' = [language EXCEPT ![p] = None]
                  /\ requests' = [requests EXCEPT ![p] = <<>>]
                  /\ result' = [result EXCEPT ![p] = NoResult]
                  /\ pc' = [pc EXCEPT ![p] = "idle"]

\* Whether st.image(uploaded_file) raises in a run with this upload: on bytes
\* PIL does not identify, if the installed Streamlit lets PIL's error through.
ImageRaises(upl) == upl = "undecodable" /\ st_image_raises

\* The user uploads a file: a rerun with the new upload.
Upload(p) ==
  /\ pc[p] = "idle"
  /\ \E f \in Images :
       /\ f # uploaded_file[p]
       /\ Script(p, f, selected_lang[p], FALSE, ImageRaises(f))

\* The user removes the upload.
RemoveUpload(p) ==
  /\ pc[p] = "idle"
  /\ uploaded_file[p] # None
  /\ Script(p, None, selected_lang[p], FALSE, FALSE)

\* The user picks another language on the radio (rendered in the last run).
SelectLanguage(p) ==
  /\ pc[p] = "idle"
  /\ button[p] # "absent"
  /\ \E i \in 1..Len(lang_tabs) :
       /\ lang_tabs[i] # selected_lang[p]
       /\ Script(p, uploaded_file[p], lang_tabs[i], FALSE,
                 ImageRaises(uploaded_file[p]))

\* The user clicks "Generate Story"; a disabled button takes no click.
ClickGenerate(p) ==
  /\ pc[p] = "idle"
  /\ button[p] = "enabled"
  /\ Script(p, uploaded_file[p], selected_lang[p], TRUE,
            ImageRaises(uploaded_file[p]))

\* ------------------------------------------------------------------------
\* generate_story_from_image, lines 129-148
\* ------------------------------------------------------------------------
\* st.cache_resource on a miss: under the cache's lock, look again and
\* compute the value only if it is still missing.
HandleCacheMiss_NoRecheck(c, n) == <<ModelName, n + 1>>

HandleCacheMiss(c, n) == IF c # None THEN <<c, n>> ELSE <<ModelName, n + 1>>

\* model = get_story_model(): the cache lookup.
get_story_model(p) ==
  /\ pc[p] = "get_story_model"
  /\ pc' = [pc EXCEPT ![p] = IF cache # None THEN "Image_open" ELSE "cache_miss"]
  /\ UNCHANGED <<api_key, st_image_raises, cache, constructed, ui_vars,
                 image_bytes, language, requests, result>>

\* model = get_story_model(): the miss, served under the lock.
cache_miss(p) ==
  /\ pc[p] = "cache_miss"
  /\ LET r == HandleCacheMiss(cache, constructed) IN
       /\ r[2] <= MaxConstructions
       /\ cache' = r[1]
       /\ constructed' = r[2]
  /\ pc' = [pc EXCEPT ![p] = "Image_open"]
  /\ UNCHANGED <<api_key, st_image_raises, ui_vars, image_bytes, language,
                 requests, result>>

\* Lines 143-147 in the wrong order: the call before the decoding.
OpenThenGenerate_CallFirst(p) ==
  /\ pc[p] = "Image_open"
  /\ Len(requests[p]) < MaxCalls
  /\ requests' = [requests EXCEPT
                    ![p] = Append(@, Request(language[p], image_bytes[p]))]
  /\ IF image_bytes[p] = "undecodable"
     THEN /\ result' = [result EXCEPT
                          ![p] = Raised("Image.open", "UnidentifiedImageError")]
          /\ pc' = [pc EXCEPT ![p] = "raised"]
     ELSE /\ pc' = [pc EXCEPT ![p] = "generate_content"]
          /\ UNCHANGED result
  /\ UNCHANGED <<api_key, st_image_raises, cache, constructed, ui_vars,
                 image_bytes, language>>

\* img = Image.open(io.BytesIO(image_bytes)), then model.generate_content is
\* called with [prompt, img] and the timeout.
OpenThenGenerate(p) ==
  /\ pc[p] = "Image_open"
  /\ IF image_bytes[p] = "undecodable"
     THEN /\ result' = [result EXCEPT
                          ![p] = Raised("Image.open", "UnidentifiedImageError")]
          /\ pc' = [pc EXCEPT ![p] = "raised"]
          /\ UNCHANGED requests
     ELSE /\ Len(requests[p]) < MaxCalls
          /\ requests' = [requests EXCEPT
                            ![p] = Append(@, Request(language[p], image_bytes[p]))]
          /\ pc' = [pc EXCEPT ![p] = "generate_content"]
          /\ UNCHANGED result
  /\ UNCHANGED <<api_key, st_image_raises, cache, constructed, ui_vars,
                 image_bytes, language>>

\* An exception of the call answered with a retry: the call is issued again.
GenerateContentRaises_Retry(p, e) ==
  /\ pc' = [pc EXCEPT ![p] = "Image_open"]
  /\ UNCHANGED <<api_key, st_image_raises, cache, constructed, ui_vars,
                 image_bytes, language, requests, result>>

\* The call in flight ends with an exception e.
GenerateContentRaises(p, e) ==
  /\ result' = [result EXCEPT ![p] = Raised("generate_content", e)]
  /\ pc' = [pc EXCEPT ![p] = "raised"]
  /\ UNCHANGED <<api_key, st_image_raises, cache, constructed, ui_vars,
                 image_bytes, language, requests>>

\* The model answers with text; return response.text.strip()
Respond(p) ==
  /\ pc[p] = "generate_content"
  /\ \E raw \in Texts :
       result' = [result EXCEPT ![p] = Returned(raw, strip(raw))]
  /\ pc' = [pc EXCEPT ![p] = "return"]
  /\ UNCHANGED <<api_key, st_image_raises, cache, constructed, ui_vars,
                 image_bytes, language, requests>>

\* The model answers without a usable candidate: response.text raises.
RespondBlocked(p) ==
  /\ pc[p] = "generate_content"
  /\ result' = [result EXCEPT ![p] = Raised("response.text", "ValueError")]
  /\ pc' = [pc EXCEPT ![p] = "raised"]
  /\ UNCHANGED <<api_key, st_image_raises, cache, constructed, ui_vars,
                 image_bytes, language, requests>>

\* The transport fails: generate_content raises.
TransportError(p) ==
  /\ pc[p] = "generate_content"
  /\ GenerateContentRaises(p, "network")

\* The request's timeout expires: generate_content raises.
DeadlineExceeded(p) ==
  /\ pc[p] = "generate_content"
  /\ \E o \in requests[p][Len(requests[p])].request_options : o[1] = "timeout"
  /\ GenerateContentRaises(p, "timeout")

\* ------------------------------------------------------------------------
\* The script after the call, lines 231-233, and the end of a failed run
\* ------------------------------------------------------------------------
\* story_placeholder.markdown(...) with the returned text.
ShowStory(p) ==
  /\ pc[p] = "return"
  /\ story_placeholder' =
       [story_placeholder EXCEPT
          ![p] = StoryMarkdown(selected_lang[p], result[p].text)]
  /\ pc' = [pc EXCEPT ![p] = "idle"]
  /\ UNCHANGED <<api_key, st_image_raises, cache, constructed, uploaded_file,
                 selected_lang, generate_clicked, button, warning,
                 image_bytes, language, requests, result>>

\* The exception leaves the script; Streamlit's script runner catches it,
\* shows it and ends the run.  The session stays.
ScriptException_Stuck(p) ==
  /\ pc[p] = "raised"
  /\ pc' = [pc EXCEPT ![p] = "crashed"]
  /\ UNCHANGED <<api_key, st_image_raises, cache, constructed, ui_vars,
                 image_bytes, language, requests, result>>

ScriptException(p) ==
  /\ pc[p] = "raised"
  /\ pc' = [pc EXCEPT ![p] = "idle"]
  /\ UNCHANGED <<api_key, st_image_raises, cache, constructed, ui_vars,
                 image_bytes, language, requests, result>>

\* ------------------------------------------------------------------------
\* The function called directly (a test harness, no UI around it)
\* ------------------------------------------------------------------------
DirectCall(p) ==
  /\ pc[p] = "idle"
  /\ \E ib \in Images : \E lg \in Languages : BeginCall(p, ib, lg)
  /\ UNCHANGED <<api_key, st_image_raises, cache, constructed, ui_vars>>

\* The call returns or raises to its caller, and its frame is gone.
DirectReturn(p) ==
  /\ pc[p] \in {"return", "raised"}
  /\ pc' = [pc EXCEPT ![p] = "idle"]
  /\ image_bytes' = [image_bytes EXCEPT ![p] = None]
  /\ language' = [language EXCEPT ![p] = None]
  /\ requests' = [requests EXCEPT ![p] = <<>>]
  /\ result' = [result EXCEPT ![p] = NoResult]
  /\ UNCHANGED <<api_key, st_image_raises, cache, constructed, ui_vars>>

\* ------------------------------------------------------------------------
\* Specifications
\* ------------------------------------------------------------------------
\* A step of the function's body.
Call(p) ==
  \/ get_story_model(p)
  \/ cache_miss(p)
  \/ OpenThenGenerate(p)
  \/ Respond(p)
  \/ RespondBlocked(p)
  \/ TransportError(p)
  \/ DeadlineExceeded(p)

\* The sessions of the UI.
Next ==
  \E p \in Procs :
    \/ Upload(p)
    \/ RemoveUpload(p)
    \/ SelectLanguage(p)
    \/ ClickGenerate(p)
    \/ Call(p)
    \/ ShowStory(p)
    \/ ScriptException(p)

Spec == Init /\ [][Next]_vars

\* What runs without the user or the network doing anything: the thread's
\* own steps and the expiry of the request's timeout.
Progress(p) ==
  \/ get_story_model(p)
  \/ cache_miss(p)
  \/ OpenThenGenerate(p)
  \/ DeadlineExceeded(p)
  \/ ShowStory(p)
  \/ ScriptException(p)

FairSpec == Spec /\ \A p \in Procs : WF_vars(Progress(p))

\* Threads calling generate_story_from_image directly.
NextDirect ==
  \E p \in Procs :
    \/ DirectCall(p)
    \/ Call(p)
    \/ DirectReturn(p)

SpecDirect == Init /\ [][NextDirect]_vars

\* ------------------------------------------------------------------------
\* Properties
\* ------------------------------------------------------------------------
\* A non-empty GEMINI_API_KEY is configured.
Configured == api_key \notin {None, ""}

\* The thread is inside generate_story_from_image.
InCall(p) ==
  pc[p] \in {"get_story_model", "cache_miss", "Image_open", "generate_content"}

\* The text is nothing but whitespace (the empty text included).
Blank(t) == \A k \in 1..Len(t) : t[k] \in Whitespace

\* The run of session p ended at st.image, before the right column.
EndedAtImage(p) == result[p].at = "st.image"

C2_NoCredentialNoCall ==
  ~Configured =>
    \A p \in Procs :
      /\ requests[p] = <<>>
      /\ pc[p] \in {"return", "raised"} =>
           result[p].kind = "raised" /\ result[p].cause = "ConfigurationError"

C4_ConstructedAtMostOnce ==
  /\ constructed <= 1
  /\ cache = None <=> constructed = 0
  /\ cache # None => cache = ModelName
  /\ \A p \in Procs :
       pc[p] \in {"Image_open", "generate_content", "return"} => constructed = 1

C4_Witness ==
  /\ constructed = 1
  /\ \E p \in Procs : pc[p] = "cache_miss"
  /\ \E p \in Procs : pc[p] = "generate_content"

\* C5 (as claimed): a call with a language outside the supported set makes no
\* call to the model.
C5_UnsupportedLanguageRejected ==
  \A p \in Procs :
    (InCall(p) \/ pc[p] \in {"return", "raised"}) /\ language[p] \notin Supported =>
      /\ requests[p] = <<>>
      /\ pc[p] \notin {"generate_content", "return"}

\* C6: a call with bytes that do not decode ends with the error of
\* Image.open and has made no call to the model; every call to the model
\* carries an image that decoded.
C6_UndecodableRejectedBeforeCall ==
  \A p \in Procs :
    /\ image_bytes[p] = "undecodable" =>
         /\ requests[p] = <<>>
         /\ pc[p] \notin {"generate_content", "return"}
         /\ pc[p] = "raised" =>
              result[p] = Raised("Image.open", "UnidentifiedImageError")
    /\ \A i \in 1..Len(requests[p]) : requests[p][i].img = "valid"

C6_Witness ==
  \E p \in Procs :
    /\ image_bytes[p] = "undecodable"
    /\ pc[p] = "raised"
    /\ cache # None

\* C7: every call to the model carries the timeout of 120 seconds, the expiry
\* of the timeout ends the call with the error of generate_content, and a
\* thread that entered generate_story_from_image eventually leaves it.
C7_CallReturns ==
  /\ [](\A p \in Procs : \A i \in 1..Len(requests[p]) :
          requests[p][i].request_options = {<<"timeout", 120>>})
  /\ [](\A p \in Procs :
          result[p].cause = "timeout" =>
            /\ result[p].kind = "raised"
            /\ result[p].at = "generate_content"
            /\ pc[p] \in {"raised", "idle"})
  /\ \A p \in Procs : InCall(p) ~> (pc[p] \in {"return", "raised"})

C7_Witness ==
  \E p \in Procs : pc[p] = "raised" /\ result[p].cause = "timeout"

C9_AtMostOneCall ==
  \A p \in Procs :
    /\ Len(requests[p]) <= 1
    /\ result[p].at = "generate_content" =>
         /\ result[p].kind = "raised"
         /\ result[p].cause \in {"network", "timeout"}
         /\ Len(requests[p]) = 1
         /\ pc[p] \in {"raised", "idle"}

C9_Witness ==
  \E p \in Procs :
    /\ result[p] = Raised("generate_content", "network")
    /\ Len(requests[p]) = 1
    /\ pc[p] = "idle"

====
